---------------------------- MODULE Spec2Model ----------------------------
(***************************************************************************)
(* A model of AppDeployer (bcs-app/backend/bcs_k8s/app/deployer.py): the   *)
(* two runners run_with_helm and run_with_kubectl, their dispatch cores,   *)
(* the revision extractor get_release_revision and the Release / App       *)
(* records they write.                                                     *)
(*                                                                         *)
(* Texts (command output, transition messages, error messages) are         *)
(* sequences of tokens.  A token is a piece of text that the code never    *)
(* looks inside of: a single character, or a whole word such as the marker *)
(* "REVISION:" or the phrase "not found".                                  *)
(***************************************************************************)
EXTENDS Integers, Sequences, FiniteSets, TLC

VARIABLES
    release,        \* app.release: [content, revision, structure]
    transitioning,  \* what app.set_transitioning last wrote
    inv,            \* per caller: the runner invocation in progress
    ncalls,         \* number of runner invocations started so far
    mode,           \* "seq": callers serialise invocations; "conc": they do not
    cmd_out,        \* revision extractor alone: the text handed to it
    extracted       \* revision extractor alone: what it returned or raised

vars == <<release, transitioning, inv, ncalls, mode, cmd_out, extracted>>

---------------------------------------------------------------------------
(* Bounds of the model *)

\* number of runner invocations in one behaviour
MaxCalls == 2
\* revision extractor alone: number of tokens of the output text
MaxTextLen == 7

---------------------------------------------------------------------------
(* Python values *)

\* Python's None, where a text is expected
None == "None"

\* an optional integer: <<>> is None, <<n>> is n
NoRevision == <<>>

Falsy(x) == x = None \/ x = ""

---------------------------------------------------------------------------
(* Text operations, as Python's str computes them *)

\* str.split(sep) for a one-token separator: scan s from position i,
\* cur is the piece collected since the last separator
RECURSIVE SplitFrom(_, _, _, _)
SplitFrom(s, sep, i, cur) ==
    IF i > Len(s) THEN <<cur>>
    ELSE IF s[i] = sep THEN <<cur>> \o SplitFrom(s, sep, i + 1, <<>>)
    ELSE SplitFrom(s, sep, i + 1, Append(cur, s[i]))

Split(s, sep) == SplitFrom(s, sep, 1, <<>>)

\* the characters str.strip() removes
Whitespace == {" ", "\t", "\n", "\r"}

RECURSIVE LStrip(_)
LStrip(s) ==
    IF s # <<>> /\ Head(s) \in Whitespace THEN LStrip(Tail(s)) ELSE s

RECURSIVE RStrip(_)
RStrip(s) ==
    IF s # <<>> /\ s[Len(s)] \in Whitespace
    THEN RStrip(SubSeq(s, 1, Len(s) - 1))
    ELSE s

Strip(s) == LStrip(RStrip(s))

\* t in s
Contains(s, t) ==
    \E i \in 0..(Len(s) - Len(t)) : SubSeq(s, i + 1, i + Len(t)) = t

DigitTokens == <<"0", "1", "2", "3", "4", "5", "6", "7", "8", "9">>

IsDigit(c) == \E k \in 1..Len(DigitTokens) : DigitTokens[k] = c

DigitValue(c) == (CHOOSE k \in 1..Len(DigitTokens) : DigitTokens[k] = c) - 1

\* int(s) accepts s (s already stripped; signs and underscores are not
\* among the tokens of the model)
IntAccepts(s) == s # <<>> /\ \A i \in 1..Len(s) : IsDigit(s[i])

RECURSIVE IntValue(_)
IntValue(s) ==
    IF s = <<>> THEN 0
    ELSE 10 * IntValue(SubSeq(s, 1, Len(s) - 1)) + DigitValue(s[Len(s)])

---------------------------------------------------------------------------
(* Exceptions *)

\* an exception object: its class, str(e), the fields of a structured
\* execution error, and whether the object has a .message attribute
Exc(type, msg, error_no, output, has_message) ==
    [type |-> type, msg |-> msg, error_no |-> error_no, output |-> output,
     has_message |-> has_message]

NoExc == Exc("none", <<>>, "", "", FALSE)

HelmParseError == Exc("HelmError", <<"parse helm cmd output error">>, "", "", FALSE)

\* int() on a text that is no integer literal
IntValueError == Exc("ValueError", <<"invalid literal for int()">>, "", "", FALSE)

---------------------------------------------------------------------------
(* get_release_revision *)

Marker == <<"REVISION:">>

Returned(v) == [raised |-> NoExc, value |-> <<v>>]

Raised(e) == [raised |-> e, value |-> NoRevision]

\* ScanRevision, but the last field is not stripped
RECURSIVE ScanRevision_NoStrip(_, _)
ScanRevision_NoStrip(cmd_out_list, i) ==
    IF i > Len(cmd_out_list) THEN Raised(HelmParseError)
    ELSE IF ~Contains(cmd_out_list[i], Marker)
    THEN ScanRevision_NoStrip(cmd_out_list, i + 1)
    ELSE LET fields == Split(cmd_out_list[i], " ")
             last == fields[Len(fields)]
         IN  IF IntAccepts(last) THEN Returned(IntValue(last))
             ELSE Raised(IntValueError)

\* the loop over cmd_out_list from item i on
RECURSIVE ScanRevision(_, _)
ScanRevision(cmd_out_list, i) ==
    IF i > Len(cmd_out_list) THEN Raised(HelmParseError)
    ELSE IF ~Contains(cmd_out_list[i], Marker) THEN ScanRevision(cmd_out_list, i + 1)
    ELSE LET fields == Split(cmd_out_list[i], " ")
             last == Strip(fields[Len(fields)])
         IN  IF IntAccepts(last) THEN Returned(IntValue(last))
             ELSE Raised(IntValueError)

\* get_release_revision, but an output without the marker gives revision 0
get_release_revision_DefaultsToZero(out) ==
    LET got == ScanRevision(Split(out, "\n"), 1)
    IN  IF got.raised = HelmParseError THEN Returned(0) ELSE got

get_release_revision(out) == ScanRevision(Split(out, "\n"), 1)

---------------------------------------------------------------------------
(* The application, its release and the deployer's inputs *)

Backends == {"helm", "kubectl"}

Operations == {"install", "upgrade", "uninstall", "rollback"}

\* operation tags no backend knows
OtherTags == {"scale"}

\* what app.render_app can return as content
RenderResults == {None, "", "chart-a", "chart-b"}

\* Release.refresh_structure / extract_structure: the resources the content
\* describes, in order
StructureOf(content) ==
    CASE content = "chart-a" -> <<"deploy-a">>
      [] content = "chart-b" -> <<"deploy-b">>
      [] OTHER -> <<>>

\* EntryPoints, but upgrade_app_by_kubectl passes the tag "upgrade"
EntryPoints_UpgradeTag ==
    { [name |-> "install_app_by_helm",      backend |-> "helm",    operation |-> "install"],
      [name |-> "install_app_by_kubectl",   backend |-> "kubectl", operation |-> "install"],
      [name |-> "upgrade_app_by_helm",      backend |-> "helm",    operation |-> "upgrade"],
      [name |-> "upgrade_app_by_kubectl",   backend |-> "kubectl", operation |-> "upgrade"],
      [name |-> "uninstall_app_by_helm",    backend |-> "helm",    operation |-> "uninstall"],
      [name |-> "uninstall_app_by_kubectl", backend |-> "kubectl", operation |-> "uninstall"],
      [name |-> "rollback_app_by_helm",     backend |-> "helm",    operation |-> "rollback"],
      [name |-> "rollback_app_by_kubectl",  backend |-> "kubectl", operation |-> "install"] }

\* the eight named entry points: the runner and the tag each passes on
EntryPoints ==
    { [name |-> "install_app_by_helm",      backend |-> "helm",    operation |-> "install"],
      [name |-> "install_app_by_kubectl",   backend |-> "kubectl", operation |-> "install"],
      [name |-> "upgrade_app_by_helm",      backend |-> "helm",    operation |-> "upgrade"],
      [name |-> "upgrade_app_by_kubectl",   backend |-> "kubectl", operation |-> "install"],
      [name |-> "uninstall_app_by_helm",    backend |-> "helm",    operation |-> "uninstall"],
      [name |-> "uninstall_app_by_kubectl", backend |-> "kubectl", operation |-> "uninstall"],
      [name |-> "rollback_app_by_helm",     backend |-> "helm",    operation |-> "rollback"],
      [name |-> "rollback_app_by_kubectl",  backend |-> "kubectl", operation |-> "install"] }

\* AppDeployer's fields access_token, ignore_empty_access_token,
\* kubeconfig_content: with a token, and every combination without one
Deployers ==
    { [access_token |-> "token", ignore_empty_access_token |-> FALSE,
       kubeconfig_content |-> None] }
    \cup [access_token : {""},
          ignore_empty_access_token : BOOLEAN,
          kubeconfig_content : {None, "kubeconfig"}]

\* one entry of an invocation's record of its calls on collaborators
Ev(call, arg) == [call |-> call, arg |-> arg]

BackendCalls ==
    {"install", "upgrade", "uninstall", "rollback",
     "ensure_namespace", "apply", "delete_one_by_one"}

Callers == IF mode = "seq" THEN {1} ELSE {1, 2}

\* the entry points caller p invokes: any of them when invocations are
\* serialised; when two callers race, the first installs and the second
\* upgrades, rolls back or uninstalls
Offered(p) ==
    IF mode = "seq" THEN EntryPoints
    ELSE IF p = 1
    THEN {e \in EntryPoints : e.name \in {"install_app_by_helm", "install_app_by_kubectl"}}
    ELSE {e \in EntryPoints : e.name \notin {"install_app_by_helm", "install_app_by_kubectl"}}

\* the deployers callers construct: racing callers hold an access token
OfferedDeployers ==
    IF mode = "seq" THEN Deployers
    ELSE {d \in Deployers : ~Falsy(d.access_token)}

IdleInv ==
    [pc |-> "idle", entry |-> "", backend |-> "", operation |-> "",
     access_token |-> "", ignore_empty_access_token |-> FALSE,
     kubeconfig_content |-> None,
     resolved |-> FALSE, content |-> None, ctx |-> "none", err |-> None,
     out |-> <<>>, result |-> FALSE, message |-> <<>>,
     thrown |-> NoExc, failed |-> "", seen |-> None, escaped |-> NoExc,
     log |-> <<>>]

NotWritten == [written |-> FALSE, result |-> FALSE, message |-> <<>>]

NotExtracted == [raised |-> NoExc, value |-> NoRevision]

\* releases a workload can have before an invocation starts: never deployed,
\* deployed with empty content, deployed by kubectl, deployed by helm
InitialReleases ==
    { [content |-> None,      revision |-> NoRevision, structure |-> <<>>],
      [content |-> "",        revision |-> NoRevision, structure |-> <<>>],
      [content |-> "chart-a", revision |-> NoRevision, structure |-> StructureOf("chart-a")],
      [content |-> "chart-a", revision |-> <<1>>,      structure |-> StructureOf("chart-a")] }

Init ==
    /\ release \in InitialReleases
    /\ transitioning = NotWritten
    /\ inv = [p \in {1, 2} |-> IdleInv]
    /\ ncalls = 0
    /\ mode = "seq"
    /\ cmd_out = <<>>
    /\ extracted = NotExtracted

---------------------------------------------------------------------------
(* Starting a runner *)

StartRunner(p, entry, backend, operation, d) ==
    /\ p \in Callers
    /\ ncalls < MaxCalls
    /\ inv[p].pc = "idle"
    /\ mode = "seq" => \A q \in Callers : inv[q].pc = "idle"
    /\ inv' = [inv EXCEPT ![p] =
                 [IdleInv EXCEPT
                    !.pc = IF backend = "helm" THEN "helm_resolve" ELSE "kubectl_resolve",
                    !.entry = entry,
                    !.backend = backend,
                    !.operation = operation,
                    !.access_token = d.access_token,
                    !.ignore_empty_access_token = d.ignore_empty_access_token,
                    !.kubeconfig_content = d.kubeconfig_content]]
    /\ ncalls' = ncalls + 1
    /\ UNCHANGED <<release, transitioning, mode, cmd_out, extracted>>

\* install_app_by_helm ... rollback_app_by_kubectl
CallEntryPoint(p) ==
    \E e \in Offered(p), d \in OfferedDeployers :
        StartRunner(p, e.name, e.backend, e.operation, d)

\* run_with_helm / run_with_kubectl called with a tag that no entry point
\* passes to it
CallRunner(p) ==
    \E b \in Backends, op \in Operations \cup OtherTags, d \in Deployers :
        /\ \A e \in EntryPoints : ~(e.backend = b /\ e.operation = op)
        /\ StartRunner(p, IF b = "helm" THEN "run_with_helm" ELSE "run_with_kubectl",
                       b, op, d)

\* the entry point returns, or lets the runner's exception pass, to its
\* caller, who is then free to invoke the next operation
Finished(p) ==
    /\ inv[p].pc = "done"
    /\ inv' = [inv EXCEPT ![p] = IdleInv]
    /\ UNCHANGED <<release, transitioning, ncalls, mode, cmd_out, extracted>>

---------------------------------------------------------------------------
(* Pieces shared by the two runners *)

\* app.render_app raising
RenderError == Exc("RenderError", <<"render failed">>, "", "", FALSE)

\* Escape, but an exception leaves the with block without closing the client
Escape_Leaks(r, e) ==
    [r EXCEPT !.pc = "done", !.escaped = e]

\* the invocation p ends by raising e: the with block, if one is open, is left
Escape(r, e) ==
    [r EXCEPT !.pc = "done",
              !.escaped = e,
              !.ctx = IF r.ctx = "open" THEN "closed" ELSE r.ctx,
              !.log = IF r.ctx = "open" THEN Append(r.log, Ev("close_client", <<>>))
                      ELSE r.log]

\* the invocation p returns: the with block, if one is open, is left
Return(r) ==
    [r EXCEPT !.pc = "done",
              !.ctx = IF r.ctx = "open" THEN "closed" ELSE r.ctx,
              !.log = IF r.ctx = "open" THEN Append(r.log, Ev("close_client", <<>>))
                      ELSE r.log]

BoolToken(b) == IF b THEN "True" ELSE "False"

\* app.set_transitioning(result, message), as the invocation's record has it
TransitionEv(result, message) ==
    Ev("set_transitioning", <<BoolToken(result)>> \o message)

\* app.set_transitioning(result, message)
SetTransitioning(result, message) ==
    transitioning' = [written |-> TRUE, result |-> result, message |-> message]

\* "app success %s" % operation
SuccessMessage(operation) == <<"app success ", operation>>

\* ExecutionFailedMessage, but the captured output is left out
ExecutionFailedMessage_NoOutput(tool, e) ==
    <<tool, " command execute failed.\nError code: ", e.error_no>>

\* "<tool> command execute failed.\nError code: {error_no}\nOutput:\n{output}"
ExecutionFailedMessage(tool, e) ==
    <<tool, " command execute failed.\nError code: ", e.error_no,
      "\nOutput:\n", e.output>>

\* collect_transitioning_error_message
collect_transitioning_error_message(e) ==
    e.msg \o <<"\n", "Traceback (most recent call last)">>

\* UpdateAppReleaseContent, but nothing is saved or refreshed
UpdateAppReleaseContent_Unsaved(p) ==
    /\ inv[p].pc = "persist"
    /\ inv' = [inv EXCEPT ![p] =
                 [@ EXCEPT !.pc = IF inv[p].backend = "helm" THEN "helm_client"
                                  ELSE "kubectl_client"]]
    /\ UNCHANGED <<release, transitioning, ncalls, mode, cmd_out, extracted>>

\* UpdateAppReleaseContent, but content the Release already holds is kept
UpdateAppReleaseContent_KeepsStored(p) ==
    /\ inv[p].pc = "persist"
    /\ release' = IF release.content = None
                  THEN [release EXCEPT !.content = inv[p].content,
                                       !.structure = StructureOf(inv[p].content)]
                  ELSE release
    /\ inv' = [inv EXCEPT ![p] =
                 [@ EXCEPT !.pc = IF inv[p].backend = "helm" THEN "helm_client"
                                  ELSE "kubectl_client",
                           !.log = @ \o <<Ev("release.save", <<"content", inv[p].content>>),
                                          Ev("refresh_structure", <<>>)>>]]
    /\ UNCHANGED <<transitioning, ncalls, mode, cmd_out, extracted>>

\* update_app_release_content
UpdateAppReleaseContent(p) ==
    /\ inv[p].pc = "persist"
    /\ release' = [release EXCEPT !.content = inv[p].content,
                                  !.structure = StructureOf(inv[p].content)]
    /\ inv' = [inv EXCEPT ![p] =
                 [@ EXCEPT !.pc = IF inv[p].backend = "helm" THEN "helm_client"
                                  ELSE "kubectl_client",
                           !.log = @ \o <<Ev("release.save", <<"content", inv[p].content>>),
                                          Ev("refresh_structure", <<>>)>>]]
    /\ UNCHANGED <<transitioning, ncalls, mode, cmd_out, extracted>>

\* what entering a make_*_client context can yield as err
AcquireErrors == {"cluster unreachable"}

\* ClientFailedMessage, but the error is not formatted in
ClientFailedMessage_NoError(tool, err) == <<"make ", tool, " client failed">>

\* "make helm client failed, %s" % err, "make kubectl client failed, %s" % err
ClientFailedMessage(tool, err) == <<"make ", tool, " client failed, ", err>>

\* ClientFailed, but the branch returns without set_transitioning
ClientFailed_Silent(p, opened, err) ==
    /\ inv' = [inv EXCEPT ![p] = Return(opened)]
    /\ UNCHANGED transitioning

\* ClientFailed, but the branch does not return and the dispatch follows
ClientFailed_FallsThrough(p, opened, err) ==
    LET message == ClientFailedMessage(opened.backend, err)
    IN  /\ SetTransitioning(FALSE, message)
        /\ inv' = [inv EXCEPT ![p] =
                     [opened EXCEPT
                        !.pc = IF opened.backend = "helm" THEN "helm_core"
                               ELSE "kubectl_core",
                        !.result = FALSE,
                        !.message = message,
                        !.log = Append(@, TransitionEv(FALSE, message))]]

\* the "if err is not None" branch of both runners; opened is the
\* invocation inside the with block
ClientFailed(p, opened, err) ==
    LET message == ClientFailedMessage(opened.backend, err)
    IN  /\ SetTransitioning(FALSE, message)
        /\ inv' = [inv EXCEPT ![p] =
                     Return([opened EXCEPT
                        !.result = FALSE,
                        !.message = message,
                        !.log = Append(@, TransitionEv(FALSE, message))])]

---------------------------------------------------------------------------
(* run_with_helm *)

\* "if not content: return"
HelmNoContent(content) == Falsy(content)

HelmResolved(p, content, calls) ==
    inv' = [inv EXCEPT ![p] =
              [@ EXCEPT !.resolved = TRUE,
                        !.content = content,
                        !.log = @ \o calls,
                        !.pc = IF HelmNoContent(content) THEN "done" ELSE "persist"]]

\* where run_with_helm takes the content from, by operation tag
HelmContentSource(operation) ==
    IF operation \in {"install", "upgrade"} THEN "render_app"
    ELSE IF operation \in {"uninstall", "rollback"} THEN "release.content"
    ELSE "ValidationError"

\* run_with_helm up to "if not content: return"
HelmResolve(p) ==
    /\ inv[p].pc = "helm_resolve"
    /\ \/ /\ HelmContentSource(inv[p].operation) = "render_app"
          /\ \/ \E c \in RenderResults :
                   HelmResolved(p, c, <<Ev("render_app", <<>>)>>)
             \/ inv' = [inv EXCEPT ![p] =
                          Escape([@ EXCEPT !.log = Append(@, Ev("render_app", <<>>))],
                                 RenderError)]
       \/ /\ HelmContentSource(inv[p].operation) = "release.content"
          /\ HelmResolved(p, release.content, <<>>)
       \/ /\ HelmContentSource(inv[p].operation) = "ValidationError"
          /\ inv' = [inv EXCEPT ![p] =
                       Escape(@, Exc("ValidationError", <<"not allow operation">>,
                                     "", "", FALSE))]
    /\ UNCHANGED <<release, transitioning, ncalls, mode, cmd_out, extracted>>

\* "with self.make_kubehelm_client() as (client, err)" and the err branch
HelmClient(p) ==
    /\ inv[p].pc = "helm_client"
    /\ \E err \in {None} \cup AcquireErrors :
         LET opened == [inv[p] EXCEPT !.ctx = "open",
                                      !.err = err,
                                      !.log = Append(@, Ev("make_client",
                                                           <<"make_kubehelm_client">>))]
         IN  IF err # None
             THEN ClientFailed(p, opened, err)
             ELSE /\ inv' = [inv EXCEPT ![p] = [opened EXCEPT !.pc = "helm_core"]]
                  /\ UNCHANGED transitioning
    /\ UNCHANGED <<release, ncalls, mode, cmd_out, extracted>>

\* outputs of helm install / upgrade
HelmOutputs ==
    { <<"NAME:", " ", "redis", "\n", "REVISION:", " ", "1", "\n", "TEST SUITE:", " ", "None">>,
      <<"REVISION:", " ", "2", "\n", "REVISION:", " ", "1">>,
      <<"NAME:", " ", "redis">>,
      <<"REVISION:", " ", "None">> }

\* exceptions a package manager call can raise
HelmFailures ==
    { Exc("HelmExecutionError", <<"helm failed">>, "1", "timed out", FALSE),
      Exc("HelmError", <<"release: ", "not found">>, "", "", FALSE),
      Exc("HelmError", <<"release exists">>, "", "", FALSE),
      Exc("RuntimeError", <<"connection reset">>, "", "", FALSE) }

HelmOutcomes(operation) ==
    {[raised |-> e, out |-> <<>>] : e \in HelmFailures}
    \cup IF operation \in {"install", "upgrade"}
         THEN {[raised |-> NoExc, out |-> o] : o \in HelmOutputs}
         ELSE {[raised |-> NoExc, out |-> <<>>]}

\* HelmTry, but the revision is cleared when the output cannot be parsed
HelmTry_RevisionCleared(r, outcome, rel) ==
    IF r.operation \in {"install", "upgrade"}
    THEN LET call == Ev(r.operation, <<r.content>>)
             got == get_release_revision(outcome.out)
         IN  IF outcome.raised # NoExc
             THEN [raised |-> outcome.raised, revision |-> rel.revision,
                   calls |-> <<call>>]
             ELSE IF got.raised # NoExc
             THEN [raised |-> got.raised, revision |-> NoRevision,
                   calls |-> <<call>>]
             ELSE [raised |-> NoExc, revision |-> got.value,
                   calls |-> <<call, Ev("release.save", <<"revision">>)>>]
    ELSE [raised |-> outcome.raised, revision |-> rel.revision,
          calls |-> <<Ev(r.operation, <<>>)>>]

\* HelmTry, but the extracted revision is not stored
HelmTry_RevisionDropped(r, outcome, rel) ==
    IF r.operation \in Operations
    THEN [raised |-> outcome.raised, revision |-> rel.revision,
          calls |-> <<Ev(r.operation, <<>>)>>]
    ELSE [raised |-> NoExc, revision |-> rel.revision, calls |-> <<>>]

\* the try block of run_with_kubehelm_core: the exception it ends with,
\* release.revision after it, the calls it made
HelmTry(r, outcome, rel) ==
    IF r.operation \in {"install", "upgrade"}
    THEN LET call == Ev(r.operation, <<r.content>>)
             got == get_release_revision(outcome.out)
         IN  IF outcome.raised # NoExc
             THEN [raised |-> outcome.raised, revision |-> rel.revision,
                   calls |-> <<call>>]
             ELSE IF got.raised # NoExc
             THEN [raised |-> got.raised, revision |-> rel.revision,
                   calls |-> <<call>>]
             ELSE [raised |-> NoExc, revision |-> got.value,
                   calls |-> <<call, Ev("release.save", <<"revision">>)>>]
    ELSE IF r.operation \in {"uninstall", "rollback"}
    THEN [raised |-> outcome.raised, revision |-> rel.revision,
          calls |-> <<Ev(r.operation, <<>>)>>]
    ELSE [raised |-> NoExc, revision |-> rel.revision, calls |-> <<>>]

\* HelmClassify, but "not found" counts as success for every operation
HelmClassify_AnyOperation(e, operation) ==
    IF e.type = "HelmExecutionError"
    THEN [result |-> FALSE, message |-> ExecutionFailedMessage("helm", e)]
    ELSE IF e.type = "HelmError"
    THEN IF Contains(e.msg, <<"not found">>)
         THEN [result |-> TRUE, message |-> SuccessMessage(operation)]
         ELSE [result |-> FALSE, message |-> e.msg]
    ELSE IF e # NoExc
    THEN [result |-> FALSE, message |-> collect_transitioning_error_message(e)]
    ELSE [result |-> TRUE, message |-> SuccessMessage(operation)]

\* the except / else clauses of run_with_kubehelm_core
HelmClassify(e, operation) ==
    IF e.type = "HelmExecutionError"
    THEN [result |-> FALSE, message |-> ExecutionFailedMessage("helm", e)]
    ELSE IF e.type = "HelmError"
    THEN IF Contains(e.msg, <<"not found">>) /\ operation = "uninstall"
         THEN [result |-> TRUE, message |-> SuccessMessage(operation)]
         ELSE [result |-> FALSE, message |-> e.msg]
    ELSE IF e # NoExc
    THEN [result |-> FALSE, message |-> collect_transitioning_error_message(e)]
    ELSE [result |-> TRUE, message |-> SuccessMessage(operation)]

\* run_with_kubehelm_core up to the call of set_transitioning
HelmCore(p) ==
    /\ inv[p].pc = "helm_core"
    /\ \E outcome \in HelmOutcomes(inv[p].operation) :
         LET t == HelmTry(inv[p], outcome, release)
             c == HelmClassify(t.raised, inv[p].operation)
         IN  /\ release' = [release EXCEPT !.revision = t.revision]
             /\ inv' = [inv EXCEPT ![p] =
                          [@ EXCEPT !.pc = "helm_report",
                                    !.out = outcome.out,
                                    !.seen = IF t.calls # <<>> THEN release.content
                                             ELSE @,
                                    !.thrown = t.raised,
                                    !.failed = IF outcome.raised # NoExc /\ t.calls # <<>>
                                               THEN t.calls[1].call ELSE "",
                                    !.result = c.result,
                                    !.message = c.message,
                                    !.log = @ \o t.calls]]
    /\ UNCHANGED <<transitioning, ncalls, mode, cmd_out, extracted>>

\* the last line of run_with_kubehelm_core, and leaving the with block
HelmReport(p) ==
    /\ inv[p].pc = "helm_report"
    /\ SetTransitioning(inv[p].result, inv[p].message)
    /\ inv' = [inv EXCEPT ![p] =
                 Return([@ EXCEPT !.log =
                     Append(@, TransitionEv(inv[p].result, inv[p].message))])]
    /\ UNCHANGED <<release, ncalls, mode, cmd_out, extracted>>

---------------------------------------------------------------------------
(* run_with_kubectl *)

\* "if content is None: return"
KubectlNoContent(content) == content = None

KubectlResolved(p, content, calls) ==
    inv' = [inv EXCEPT ![p] =
              [@ EXCEPT !.resolved = TRUE,
                        !.content = content,
                        !.log = @ \o calls,
                        !.pc = IF KubectlNoContent(content) THEN "done" ELSE "persist"]]

\* KubectlContentSource, but uninstall renders as well
KubectlContentSource_Rendered(operation) == "render_app"

\* where run_with_kubectl takes the content from, by operation tag
KubectlContentSource(operation) ==
    IF operation = "uninstall" THEN "release.content" ELSE "render_app"

\* run_with_kubectl up to "if content is None: return"
KubectlResolve(p) ==
    /\ inv[p].pc = "kubectl_resolve"
    /\ \/ /\ KubectlContentSource(inv[p].operation) = "release.content"
          /\ KubectlResolved(p, release.content, <<>>)
       \/ /\ KubectlContentSource(inv[p].operation) = "render_app"
          /\ \/ \E c \in RenderResults :
                   KubectlResolved(p, c, <<Ev("render_app", <<>>)>>)
             \/ inv' = [inv EXCEPT ![p] =
                          Escape([@ EXCEPT !.log = Append(@, Ev("render_app", <<>>))],
                                 RenderError)]
    /\ UNCHANGED <<release, transitioning, ncalls, mode, cmd_out, extracted>>

\* KubectlClientSource, but a supplied kubeconfig is used without the opt-in
KubectlClientSource_NoOptIn(r) ==
    IF ~Falsy(r.access_token) THEN "make_kubectl_client"
    ELSE IF ~Falsy(r.kubeconfig_content) THEN "make_kubectl_client_from_kubeconfig"
    ELSE IF r.ignore_empty_access_token THEN "PermissionDenied"
    ELSE "ValueError"

\* the if / elif / else of run_with_kubectl after the content is saved: the
\* client factory that is entered, or the exception that is raised
KubectlClientSource(r) ==
    IF ~Falsy(r.access_token) THEN "make_kubectl_client"
    ELSE IF r.ignore_empty_access_token
    THEN IF ~Falsy(r.kubeconfig_content)
         THEN "make_kubectl_client_from_kubeconfig"
         ELSE "PermissionDenied"
    ELSE "ValueError"

\* run_with_kubectl from "if self.access_token:" to the call of
\* run_with_kubectl_core
KubectlClient(p) ==
    /\ inv[p].pc = "kubectl_client"
    /\ LET r == inv[p]
           source == KubectlClientSource(r)
           opened == [r EXCEPT !.ctx = "open",
                               !.log = Append(@, Ev("make_client", <<source>>))]
       IN  IF source = "make_kubectl_client"
           THEN \E err \in {None} \cup AcquireErrors :
                  IF err # None
                  THEN ClientFailed(p, [opened EXCEPT !.err = err], err)
                  ELSE /\ inv' = [inv EXCEPT ![p] =
                                    [opened EXCEPT !.pc = "kubectl_core"]]
                       /\ UNCHANGED transitioning
           ELSE IF source = "make_kubectl_client_from_kubeconfig"
           THEN /\ inv' = [inv EXCEPT ![p] = [opened EXCEPT !.pc = "kubectl_core"]]
                /\ UNCHANGED transitioning
           ELSE IF source = "PermissionDenied"
           THEN /\ inv' = [inv EXCEPT ![p] =
                             Escape(r, Exc("PermissionDenied",
                                           <<"api access must supply valid kubeconfig">>,
                                           "", "", FALSE))]
                /\ UNCHANGED transitioning
           ELSE /\ inv' = [inv EXCEPT ![p] =
                             Escape(r, Exc("ValueError", <<"AppDeployer">>, "", "", FALSE))]
                /\ UNCHANGED transitioning
    /\ UNCHANGED <<release, ncalls, mode, cmd_out, extracted>>

\* a KubectlError: the applier's domain error, which carries its message
KubectlErrorRaised(msg) == Exc("KubectlError", msg, "", "", TRUE)

\* exceptions a kubectl call can raise: a structured execution error, a
\* KubectlError, and other exceptions with and without a .message attribute
KubectlFailures ==
    { Exc("KubectlExecutionError", <<"kubectl failed">>, "1", "forbidden", TRUE),
      KubectlErrorRaised(<<"namespace ", "not found">>),
      Exc("RuntimeError", <<"connection reset">>, "", "", FALSE),
      Exc("ApiException", <<"bad gateway">>, "", "", TRUE) }

KubectlOutcomes == {NoExc} \cup KubectlFailures

\* reading e.message
AttributeError ==
    Exc("AttributeError", <<"object has no attribute 'message'">>, "", "", FALSE)

\* KubectlClassify, but a KubectlError saying "not found" counts as success
KubectlClassify_NotFoundIsSuccess(e) ==
    IF e.type = "KubectlExecutionError"
    THEN [escaped |-> NoExc, result |-> FALSE,
          message |-> ExecutionFailedMessage("kubectl", e)]
    ELSE IF e.type = "KubectlError" /\ Contains(e.msg, <<"not found">>)
    THEN [escaped |-> NoExc, result |-> TRUE, message |-> SuccessMessage("uninstall")]
    ELSE IF e.has_message
    THEN [escaped |-> NoExc, result |-> FALSE,
          message |-> IF e.type = "KubectlError" THEN e.msg
                      ELSE collect_transitioning_error_message(e)]
    ELSE [escaped |-> AttributeError, result |-> FALSE, message |-> <<>>]

\* the except clauses of run_with_kubectl_core for the exception e: the
\* transition they prepare, or the exception that leaves the handler
KubectlClassify(e) ==
    IF e.type = "KubectlExecutionError"
    THEN [escaped |-> NoExc, result |-> FALSE,
          message |-> ExecutionFailedMessage("kubectl", e)]
    ELSE IF e.type = "KubectlError"
    THEN IF e.has_message
         THEN [escaped |-> NoExc, result |-> FALSE, message |-> e.msg]
         ELSE [escaped |-> AttributeError, result |-> FALSE, message |-> <<>>]
    ELSE IF e.has_message
         THEN [escaped |-> NoExc, result |-> FALSE,
               message |-> collect_transitioning_error_message(e)]
         ELSE [escaped |-> AttributeError, result |-> FALSE, message |-> <<>>]

\* the try block of run_with_kubectl_core ends with the exception e
KubectlFailed(p, calls, e) ==
    LET c == KubectlClassify(e)
        r == [inv[p] EXCEPT !.thrown = e,
                            !.failed = IF calls = <<>> THEN ""
                                       ELSE calls[Len(calls)].call,
                            !.seen = IF calls # <<>> THEN release.content ELSE @,
                            !.log = @ \o calls]
    IN  inv' = [inv EXCEPT ![p] =
                  IF c.escaped # NoExc
                  THEN Escape(r, c.escaped)
                  ELSE [r EXCEPT !.pc = "kubectl_report",
                                 !.result = c.result,
                                 !.message = c.message]]

\* KubectlSupported, but the final else branch is never taken
KubectlSupported_Any(operation) == TRUE

\* the operations run_with_kubectl_core has a branch for
KubectlSupported(operation) == operation \in {"install", "uninstall"}

\* run_with_kubectl_core: the branch on operation and ensure_namespace
KubectlCore(p) ==
    /\ inv[p].pc = "kubectl_core"
    /\ IF KubectlSupported(inv[p].operation)
       THEN \E outcome \in KubectlOutcomes :
              LET calls == <<Ev("ensure_namespace", <<>>)>>
              IN  IF outcome # NoExc
                  THEN KubectlFailed(p, calls, outcome)
                  ELSE inv' = [inv EXCEPT ![p] =
                                 [@ EXCEPT !.pc = IF inv[p].operation = "install"
                                                  THEN "kubectl_apply"
                                                  ELSE "kubectl_delete",
                                           !.seen = release.content,
                                           !.log = @ \o calls]]
       ELSE KubectlFailed(p, <<>>,
                          Exc("ValueError", <<inv[p].operation>>, "", "", FALSE))
    /\ UNCHANGED <<release, transitioning, ncalls, mode, cmd_out, extracted>>

\* the try block ended without an exception: the else clause
KubectlSucceeded(p, calls) ==
    inv' = [inv EXCEPT ![p] =
              [@ EXCEPT !.pc = "kubectl_report",
                        !.seen = release.content,
                        !.result = TRUE,
                        !.message = SuccessMessage(inv[p].operation),
                        !.log = @ \o calls]]

\* client.apply(template=content, namespace=...)
KubectlApply(p) ==
    /\ inv[p].pc = "kubectl_apply"
    /\ \E outcome \in KubectlOutcomes :
         LET calls == <<Ev("apply", <<inv[p].content>>)>>
         IN  IF outcome # NoExc
             THEN KubectlFailed(p, calls, outcome)
             ELSE KubectlSucceeded(p, calls)
    /\ UNCHANGED <<release, transitioning, ncalls, mode, cmd_out, extracted>>

\* DeleteArgument, but the raw content is handed to the client
DeleteArgument_Content(p) == <<inv[p].content>>

\* self.app.release.extract_structure(self.app.namespace)
DeleteArgument(p) == release.structure

\* client.delete_one_by_one(release.extract_structure(namespace), ...)
KubectlDelete(p) ==
    /\ inv[p].pc = "kubectl_delete"
    /\ \E outcome \in KubectlOutcomes :
         LET calls == <<Ev("delete_one_by_one", DeleteArgument(p))>>
         IN  IF outcome # NoExc
             THEN KubectlFailed(p, calls, outcome)
             ELSE KubectlSucceeded(p, calls)
    /\ UNCHANGED <<release, transitioning, ncalls, mode, cmd_out, extracted>>

\* the last line of run_with_kubectl_core, and leaving the with block
KubectlReport(p) ==
    /\ inv[p].pc = "kubectl_report"
    /\ SetTransitioning(inv[p].result, inv[p].message)
    /\ inv' = [inv EXCEPT ![p] =
                 Return([@ EXCEPT !.log =
                     Append(@, TransitionEv(inv[p].result, inv[p].message))])]
    /\ UNCHANGED <<release, ncalls, mode, cmd_out, extracted>>

---------------------------------------------------------------------------
(* The deployer under callers that serialise their invocations *)

Next ==
    \E p \in {1, 2} :
        \/ CallEntryPoint(p)
        \/ CallRunner(p)
        \/ HelmResolve(p)
        \/ KubectlResolve(p)
        \/ UpdateAppReleaseContent(p)
        \/ HelmClient(p)
        \/ HelmCore(p)
        \/ HelmReport(p)
        \/ KubectlClient(p)
        \/ KubectlCore(p)
        \/ KubectlApply(p)
        \/ KubectlDelete(p)
        \/ KubectlReport(p)
        \/ Finished(p)

Spec == Init /\ [][Next]_vars

---------------------------------------------------------------------------
(* The deployer under two callers that each invoke one entry point on the
   same workload, with no mutual exclusion between them *)

InitConc ==
    /\ release \in InitialReleases
    /\ transitioning = NotWritten
    /\ inv = [p \in {1, 2} |-> IdleInv]
    /\ ncalls = 0
    /\ mode = "conc"
    /\ cmd_out = <<>>
    /\ extracted = NotExtracted

NextConc ==
    \E p \in {1, 2} :
        \/ CallEntryPoint(p)
        \/ HelmResolve(p)
        \/ KubectlResolve(p)
        \/ UpdateAppReleaseContent(p)
        \/ HelmClient(p)
        \/ HelmCore(p)
        \/ HelmReport(p)
        \/ KubectlClient(p)
        \/ KubectlCore(p)
        \/ KubectlApply(p)
        \/ KubectlDelete(p)
        \/ KubectlReport(p)

SpecConc == InitConc /\ [][NextConc]_vars

---------------------------------------------------------------------------
(* get_release_revision on its own *)

OutputTokens == {"REVISION:", " ", "\t", "\n", "1"}

OutputTexts == UNION {[1..n -> OutputTokens] : n \in 0..MaxTextLen}

InitExtract ==
    /\ release \in {[content |-> None, revision |-> NoRevision, structure |-> <<>>]}
    /\ transitioning = NotWritten
    /\ inv = [p \in {1, 2} |-> IdleInv]
    /\ ncalls = 0
    /\ mode = "seq"
    /\ cmd_out \in OutputTexts
    /\ extracted = NotExtracted

Extract ==
    /\ extracted = NotExtracted
    /\ extracted' = get_release_revision(cmd_out)
    /\ UNCHANGED <<release, transitioning, inv, ncalls, mode, cmd_out>>

NextExtract == Extract

SpecExtract == InitExtract /\ [][NextExtract]_vars

---------------------------------------------------------------------------
(* Vocabulary of the properties *)

Done(p) == inv[p].pc = "done"

CallsOf(r) == {r.log[i].call : i \in 1..Len(r.log)}

Count(r, call) == Cardinality({i \in 1..Len(r.log) : r.log[i].call = call})

IsTransition(e) == e.call = "set_transitioning"

Transitions(r) == SelectSeq(r.log, IsTransition)

\* the invocation r wrote exactly the transition (result, message), and it is
\* what the application now holds
WroteOnly(r, result, message) ==
    /\ Transitions(r) = <<TransitionEv(result, message)>>
    /\ transitioning = [written |-> TRUE, result |-> result, message |-> message]

Min(S) == CHOOSE x \in S : \A y \in S : x <= y

Max(S) == CHOOSE x \in S : \A y \in S : y <= x

\* positions of the marker in a text
MarkerAt(t) == {i \in 1..Len(t) : t[i] = "REVISION:"}

\* the line of t that holds position m
LineAround(t, m) ==
    LET a == Max({j \in 1..m : j = 1 \/ t[j - 1] = "\n"})
        b == Min({j \in m..Len(t) : j = Len(t) \/ t[j + 1] = "\n"})
    IN  SubSeq(t, a, b)

FirstMarkerLine(t) == LineAround(t, Min(MarkerAt(t)))

\* what follows the last single space of a line (the line, if it has none)
AfterLastSpace(line) ==
    SubSeq(line, Max({j \in 1..(Len(line) + 1) : j = 1 \/ line[j - 1] = " "}),
           Len(line))

\* s without its leading and trailing whitespace
Trimmed(s) ==
    LET K == {j \in 1..Len(s) : s[j] \notin Whitespace}
    IN  IF K = {} THEN <<>> ELSE SubSeq(s, Min(K), Max(K))

\* the last whitespace-delimited field of a line
TrailingField(line) ==
    LET K == {j \in 1..Len(line) : line[j] \notin Whitespace}
        e == Max(K)
    IN  IF K = {} THEN <<>>
        ELSE SubSeq(line, Max({j \in 1..e : j = 1 \/ line[j - 1] \in Whitespace}), e)

---------------------------------------------------------------------------
(* C1 *)

SideEffectCalls ==
    BackendCalls \cup {"release.save", "refresh_structure", "make_client",
                       "set_transitioning"}

\* C1: in an invocation of one of the four operations, on either backend,
\* whose resolved content is empty or None, nothing is saved, the structure
\* is not refreshed, no client is acquired, no backend call is issued and
\* set_transitioning is not called.
C1_EmptyContentNoSideEffects ==
    \A p \in {1, 2} :
        (inv[p].resolved /\ Falsy(inv[p].content) /\ inv[p].operation \in Operations)
            => CallsOf(inv[p]) \cap SideEffectCalls = {}

---------------------------------------------------------------------------
(* C2 *)

\* C2 as stated: every finished invocation whose resolved content is
\* non-empty has called set_transitioning exactly once, whether it returned
\* or raised.
C2_ExactlyOneTransition ==
    \A p \in {1, 2} :
        (Done(p) /\ inv[p].resolved /\ ~Falsy(inv[p].content))
            => Count(inv[p], "set_transitioning") = 1

\* C2 as amended: a finished invocation whose resolved content is non-empty
\* has called set_transitioning exactly once if it returned, and not at all
\* if it raised.
C2_OneTransitionIfReturned ==
    \A p \in {1, 2} :
        (Done(p) /\ inv[p].resolved /\ ~Falsy(inv[p].content))
            => Count(inv[p], "set_transitioning")
                 = IF inv[p].escaped = NoExc THEN 1 ELSE 0

C2_Witness ==
    \E p \in {1, 2} :
        /\ Done(p) /\ inv[p].resolved /\ ~Falsy(inv[p].content)
        /\ inv[p].escaped = NoExc
        /\ inv[p].err # None
        /\ Count(inv[p], "set_transitioning") = 1

---------------------------------------------------------------------------
(* C3 *)

\* C3: whenever an invocation makes a client or issues a backend call, it
\* has before that saved its resolved content to Release.content and then
\* refreshed the structure.
C3_SavedBeforeClientAndCalls ==
    \A p \in {1, 2} :
        \A i \in 1..Len(inv[p].log) :
            inv[p].log[i].call \in BackendCalls \cup {"make_client"}
                => \E j \in 1..(i - 1), k \in 1..(i - 1) :
                       /\ j < k
                       /\ inv[p].log[j] = Ev("release.save", <<"content", inv[p].content>>)
                       /\ inv[p].log[k].call = "refresh_structure"

C3_Witness ==
    \E p \in {1, 2} :
        /\ CallsOf(inv[p]) \cap BackendCalls # {}
        /\ release.content = inv[p].content
        /\ release.structure = StructureOf(inv[p].content)

---------------------------------------------------------------------------
(* C4 *)

\* C4: a finished invocation whose client acquisition yielded an error wrote
\* exactly one transition, a failed one whose message includes the error,
\* issued no backend call and returned without raising.
C4_AcquisitionErrorReported ==
    \A p \in {1, 2} :
        (Done(p) /\ inv[p].err # None)
            => /\ \E m \in {inv[p].message} :
                     WroteOnly(inv[p], FALSE, m) /\ Contains(m, <<inv[p].err>>)
               /\ CallsOf(inv[p]) \cap BackendCalls = {}
               /\ inv[p].escaped = NoExc

C4_Witness ==
    \E p \in {1, 2} :
        /\ Done(p) /\ inv[p].err # None /\ inv[p].backend = "kubectl"
        /\ transitioning.written /\ ~transitioning.result

---------------------------------------------------------------------------
(* C5 *)

\* C5: no invocation that has ended still holds a client: every client made
\* has been closed, however the invocation ended; a client is held only
\* inside the dispatch.
C5_ClientReleased ==
    \A p \in {1, 2} :
        /\ inv[p].pc \in {"idle", "done"}
              => /\ inv[p].ctx # "open"
                 /\ Count(inv[p], "close_client") = Count(inv[p], "make_client")
        /\ inv[p].ctx = "open"
              => inv[p].pc \in {"helm_core", "helm_report", "kubectl_core",
                                "kubectl_apply", "kubectl_delete", "kubectl_report"}

C5_Witness ==
    \E p \in {1, 2} :
        /\ Done(p) /\ inv[p].escaped # NoExc
        /\ inv[p].ctx = "closed"
        /\ Count(inv[p], "make_client") = 1

---------------------------------------------------------------------------
(* C6 *)

\* C6: when the package manager dispatch ends with a HelmError, the
\* transition is (True, "app success uninstall") if the message contains
\* "not found" and the operation is uninstall, and otherwise a failed
\* transition carrying the error's message.
C6_HelmErrorClassified ==
    \A p \in {1, 2} :
        (Done(p) /\ inv[p].backend = "helm" /\ inv[p].thrown.type = "HelmError")
            => IF Contains(inv[p].thrown.msg, <<"not found">>)
                  /\ inv[p].operation = "uninstall"
               THEN WroteOnly(inv[p], TRUE, <<"app success ", "uninstall">>)
               ELSE WroteOnly(inv[p], FALSE, inv[p].thrown.msg)

C6_Witness ==
    \E p \in {1, 2} :
        /\ Done(p) /\ inv[p].backend = "helm" /\ inv[p].operation = "uninstall"
        /\ inv[p].thrown.type = "HelmError"
        /\ Contains(inv[p].thrown.msg, <<"not found">>)
        /\ transitioning.result

---------------------------------------------------------------------------
(* C7 *)

\* the first marker line of the text is "REVISION: <digits>"
RevisionLine(t) ==
    /\ MarkerAt(t) # {}
    /\ LET line == FirstMarkerLine(t)
       IN  /\ Len(line) >= 3
           /\ line[1] = "REVISION:"
           /\ line[2] = " "
           /\ IntAccepts(SubSeq(line, 3, Len(line)))

RevisionOnLine(t) ==
    LET line == FirstMarkerLine(t) IN IntValue(SubSeq(line, 3, Len(line)))

\* C7: after a package manager install or upgrade whose backend call
\* returned output with first marker line "REVISION: n", Release.revision is
\* n and the one transition written is (True, "app success <operation>").
C7_RevisionStored ==
    \A p \in {1, 2} :
        (/\ Done(p) /\ inv[p].backend = "helm"
         /\ inv[p].operation \in {"install", "upgrade"}
         /\ RevisionLine(inv[p].out))
            => /\ release.revision = <<RevisionOnLine(inv[p].out)>>
               /\ WroteOnly(inv[p], TRUE, <<"app success ", inv[p].operation>>)

C7_Witness ==
    \E p \in {1, 2} :
        /\ Done(p) /\ inv[p].backend = "helm" /\ inv[p].operation = "upgrade"
        /\ RevisionLine(inv[p].out)
        /\ Cardinality(MarkerAt(inv[p].out)) = 2
        /\ release.revision = <<2>>

---------------------------------------------------------------------------
(* C8 *)

\* C8 as stated: if the text has a marker line, get_release_revision returns
\* the integer that is the last whitespace-delimited field of the first such
\* line; if it has none, it raises the parse error.
C8_TrailingFieldReturned ==
    extracted # NotExtracted
        => IF MarkerAt(cmd_out) # {}
           THEN LET f == TrailingField(FirstMarkerLine(cmd_out))
                IN  IntAccepts(f) /\ extracted = Returned(IntValue(f))
           ELSE extracted = Raised(HelmParseError)

\* C8 as amended: if the text has a marker line, take what follows the last
\* single space of the first such line (the line, if it has no space) and
\* trim it: get_release_revision returns its value if it is an integer
\* literal and raises ValueError if not; later marker lines play no part.  If
\* the text has no marker line, it raises the parse error.
C8_LastSpaceFieldReturned ==
    extracted # NotExtracted
        => IF MarkerAt(cmd_out) # {}
           THEN LET f == Trimmed(AfterLastSpace(FirstMarkerLine(cmd_out)))
                IN  IF IntAccepts(f)
                    THEN extracted = Returned(IntValue(f))
                    ELSE /\ extracted.raised.type = "ValueError"
                         /\ extracted.value = NoRevision
           ELSE extracted = Raised(HelmParseError)

C8_Witness ==
    /\ extracted = Returned(11)
    /\ Cardinality(MarkerAt(cmd_out)) = 2
    /\ cmd_out[Len(cmd_out)] = "\t"

---------------------------------------------------------------------------
(* C9 *)

\* the tag is not one the runner's backend supports
Unsupported(r) ==
    \/ r.backend = "helm" /\ r.operation \notin {"install", "upgrade", "uninstall", "rollback"}
    \/ r.backend = "kubectl" /\ r.operation \notin {"install", "uninstall"}

\* an invalid-operation error was raised in the invocation
InvalidOperationRaised(r) ==
    \/ r.escaped.type = "ValidationError"
    \/ r.thrown.type = "ValueError" /\ r.thrown.msg = <<r.operation>>

\* C9 as stated: a finished invocation with an unsupported tag has failed
\* with an invalid-operation error and has issued no backend call.
C9_UnsupportedAlwaysFails ==
    \A p \in {1, 2} :
        (Done(p) /\ Unsupported(inv[p]))
            => /\ InvalidOperationRaised(inv[p])
               /\ CallsOf(inv[p]) \cap BackendCalls = {}

\* C9 as amended: an invocation with an unsupported tag issues no backend
\* call and writes no successful transition.  run_with_helm raises the
\* invalid-operation error before it resolves content or does anything
\* else; run_with_kubectl raises it (inside the dispatch) exactly when the
\* invocation gets as far as the dispatch, that is when the content is not
\* None and a client was obtained.
C9_UnsupportedNoBackendCall ==
    \A p \in {1, 2} :
        (inv[p].pc # "idle" /\ Unsupported(inv[p]))
            => /\ CallsOf(inv[p]) \cap BackendCalls = {}
               /\ \A i \in 1..Len(inv[p].log) :
                     IsTransition(inv[p].log[i]) => inv[p].log[i].arg[1] = "False"
               /\ (Done(p) /\ inv[p].backend = "helm")
                     => /\ inv[p].escaped.type = "ValidationError"
                        /\ ~inv[p].resolved
                        /\ inv[p].log = <<>>
               /\ (Done(p) /\ inv[p].backend = "kubectl")
                     => (InvalidOperationRaised(inv[p])
                           <=> /\ inv[p].resolved
                               /\ inv[p].content # None
                               /\ inv[p].ctx # "none"
                               /\ inv[p].err = None)

C9_Witness ==
    \E p \in {1, 2} :
        /\ Done(p) /\ inv[p].backend = "kubectl" /\ inv[p].operation = "scale"
        /\ InvalidOperationRaised(inv[p])
        /\ "make_client" \in CallsOf(inv[p])
        /\ CallsOf(inv[p]) \cap BackendCalls = {}

---------------------------------------------------------------------------
(* C10 *)

StructuredErrors == {"HelmExecutionError", "KubectlExecutionError"}

\* C10: when a backend call of either backend raises a structured execution
\* error, the one transition written is a failed one whose message
\* contains the error code and the captured output.
C10_ExecutionErrorReported ==
    \A p \in {1, 2} :
        (Done(p) /\ inv[p].thrown.type \in StructuredErrors)
            => \E m \in {inv[p].message} :
                  /\ WroteOnly(inv[p], FALSE, m)
                  /\ Contains(m, <<inv[p].thrown.error_no>>)
                  /\ Contains(m, <<inv[p].thrown.output>>)

C10_Witness ==
    \E p \in {1, 2} :
        /\ Done(p) /\ inv[p].thrown.type = "KubectlExecutionError"
        /\ "apply" \in CallsOf(inv[p])
        /\ transitioning.written /\ ~transitioning.result

---------------------------------------------------------------------------
(* C11 *)

\* C11: in the applier dispatch apply and delete_one_by_one come directly
\* after a call of ensure_namespace; when ensure_namespace raised, neither
\* was called; and delete_one_by_one is handed the Release's structure, not
\* the content.
C11_NamespaceFirst ==
    \A p \in {1, 2} :
        /\ \A i \in 1..Len(inv[p].log) :
              inv[p].log[i].call \in {"apply", "delete_one_by_one"}
                 => /\ i > 1
                    /\ inv[p].log[i - 1].call = "ensure_namespace"
                    /\ inv[p].backend = "kubectl"
                    /\ inv[p].log[i].call
                         = IF inv[p].operation = "install" THEN "apply"
                           ELSE "delete_one_by_one"
        /\ inv[p].failed = "ensure_namespace"
              => CallsOf(inv[p]) \cap {"apply", "delete_one_by_one"} = {}
        /\ \A i \in 1..Len(inv[p].log) :
              inv[p].log[i].call = "delete_one_by_one"
                 => /\ inv[p].log[i].arg = release.structure
                    /\ inv[p].log[i].arg = StructureOf(inv[p].content)
                    /\ inv[p].log[i].arg # <<inv[p].content>>

C11_Witness ==
    \E p \in {1, 2} :
        /\ Done(p) /\ inv[p].operation = "uninstall"
        /\ \E i \in 1..Len(inv[p].log) :
              inv[p].log[i] = Ev("delete_one_by_one", <<"deploy-a">>)
        /\ inv[p].content = "chart-a"

---------------------------------------------------------------------------
(* C12 *)

AuthorizationErrors == {"PermissionDenied", "ValueError"}

\* C12: a run_with_kubectl invocation with non-empty content and no access
\* token is dispatched, with a client made from the kubeconfig, when the
\* fallback is opted in and a kubeconfig is supplied; in every other
\* no-token case it raises an authorization error and makes no client and no
\* backend call.
C12_NoTokenFallback ==
    \A p \in {1, 2} :
        ( /\ Done(p) /\ inv[p].backend = "kubectl"
          /\ inv[p].resolved /\ ~Falsy(inv[p].content)
          /\ Falsy(inv[p].access_token) )
        => IF inv[p].ignore_empty_access_token /\ ~Falsy(inv[p].kubeconfig_content)
           THEN /\ Count(inv[p], "make_client") = 1
                /\ \E i \in 1..Len(inv[p].log) :
                      inv[p].log[i] = Ev("make_client",
                                         <<"make_kubectl_client_from_kubeconfig">>)
                /\ inv[p].escaped.type \notin AuthorizationErrors
                /\ ~Unsupported(inv[p]) => "ensure_namespace" \in CallsOf(inv[p])
                /\ Unsupported(inv[p]) => inv[p].thrown.type = "ValueError"
           ELSE /\ inv[p].escaped.type \in AuthorizationErrors
                /\ CallsOf(inv[p]) \cap (BackendCalls \cup {"make_client"}) = {}
                /\ Transitions(inv[p]) = <<>>

C12_Witness ==
    \E p \in {1, 2} :
        /\ Done(p) /\ inv[p].backend = "kubectl" /\ inv[p].content = "chart-b"
        /\ Falsy(inv[p].access_token)
        /\ inv[p].kubeconfig_content # None
        /\ inv[p].ignore_empty_access_token
        /\ "apply" \in CallsOf(inv[p])

---------------------------------------------------------------------------
(* C13 *)

\* the entry points the content is rendered for
RenderingEntries ==
    {"install_app_by_helm", "upgrade_app_by_helm", "install_app_by_kubectl",
     "upgrade_app_by_kubectl", "rollback_app_by_kubectl"}

\* the entry points the content is read from the Release for
StoredContentEntries ==
    {"uninstall_app_by_helm", "rollback_app_by_helm", "uninstall_app_by_kubectl"}

\* the invocation is past the resolution of its content
PastResolve(r) == r.pc \notin {"idle", "helm_resolve", "kubectl_resolve"}

\* C13: an invocation through an entry point calls render_app exactly when
\* the entry point is install or upgrade by helm, or install, upgrade or
\* rollback by kubectl; through uninstall or rollback by helm and uninstall
\* by kubectl the content is the Release's stored content, render_app is
\* never called, and no render failure ends the invocation.
C13_RenderedOrStored ==
    \A p \in {1, 2} :
        /\ inv[p].entry \in RenderingEntries /\ PastResolve(inv[p])
              => Count(inv[p], "render_app") = 1
        /\ inv[p].entry \in StoredContentEntries
              => /\ "render_app" \notin CallsOf(inv[p])
                 /\ inv[p].escaped # RenderError
                 /\ PastResolve(inv[p])
                       => inv[p].resolved /\ inv[p].content = release.content

C13_Witness ==
    \E p \in {1, 2} :
        /\ Done(p) /\ inv[p].entry = "uninstall_app_by_kubectl"
        /\ inv[p].content = "chart-a"
        /\ "render_app" \notin CallsOf(inv[p])
        /\ "delete_one_by_one" \in CallsOf(inv[p])

---------------------------------------------------------------------------
(* C14 *)

\* C14: a step changes Release.revision only if it is the dispatch of a helm
\* install or upgrade that goes on to report success; no step of a helm
\* uninstall or rollback, of a kubectl operation, or of an invocation that
\* reports failure changes it.
C14_RevisionFrame ==
    [][ release'.revision # release.revision
          => \E p \in {1, 2} :
                /\ inv[p].pc = "helm_core" /\ inv'[p].pc = "helm_report"
                /\ inv[p].backend = "helm"
                /\ inv[p].operation \in {"install", "upgrade"}
                /\ inv'[p].result = TRUE
                /\ inv'[p].thrown = NoExc
                /\ \A q \in {1, 2} \ {p} : inv'[q] = inv[q] ]_vars

C14_Witness ==
    \E p \in {1, 2} :
        /\ Done(p) /\ inv[p].entry = "install_app_by_helm"
        /\ WroteOnly(inv[p], TRUE, SuccessMessage("install"))
        /\ release.revision = <<2>>

---------------------------------------------------------------------------
(* C15 *)

\* the exception types the dispatch handles as structured or domain errors
ClassifiedErrors ==
    {"HelmExecutionError", "HelmError", "KubectlExecutionError", "KubectlError"}

\* C15: on both backends a dispatch that failed with an exception that is
\* neither a structured nor a domain error ends by returning, having written
\* exactly one failed transition whose message contains the exception's
\* description and a captured trace.
C15_UnclassifiedReported ==
    \A p \in {1, 2} :
        ( /\ Done(p)
          /\ inv[p].thrown # NoExc
          /\ inv[p].thrown.type \notin ClassifiedErrors )
        => /\ inv[p].escaped = NoExc
           /\ \E m \in {collect_transitioning_error_message(inv[p].thrown)} :
                 /\ WroteOnly(inv[p], FALSE, m)
                 /\ Contains(m, inv[p].thrown.msg)
                 /\ Contains(m, <<"Traceback (most recent call last)">>)

---------------------------------------------------------------------------
(* C16 *)

\* C16: when the applier dispatch of an uninstall ends with a KubectlError,
\* whether or not its message contains "not found", the invocation writes
\* one failed transition whose message is the error's message.
C16_KubectlErrorFails ==
    \A p \in {1, 2} :
        ( /\ Done(p) /\ inv[p].backend = "kubectl"
          /\ inv[p].operation = "uninstall"
          /\ inv[p].thrown.type = "KubectlError" )
        => /\ WroteOnly(inv[p], FALSE, inv[p].thrown.msg)
           /\ inv[p].escaped = NoExc

C16_Witness ==
    \E p \in {1, 2} :
        /\ Done(p) /\ inv[p].entry = "uninstall_app_by_kubectl"
        /\ inv[p].thrown.type = "KubectlError"
        /\ inv[p].failed = "delete_one_by_one"
        /\ Contains(inv[p].thrown.msg, <<"not found">>)
        /\ transitioning = [written |-> TRUE, result |-> FALSE,
                            message |-> <<"namespace ", "not found">>]

---------------------------------------------------------------------------
(* C17 *)

KubectlAliases == {"upgrade_app_by_kubectl", "rollback_app_by_kubectl"}

\* what render_app answered to the invocation
RenderResponse(r) == IF r.escaped = RenderError THEN "raised" ELSE r.content

\* what the backend client answered: the call that raised and its exception
BackendResponse(r) ==
    IF r.failed = "" THEN <<"", NoExc>> ELSE <<r.failed, r.thrown>>

\* two invocations were made on equally configured deployers and got the
\* same answers from render_app, the client factory and the backend client
SameResponses(r1, r2) ==
    /\ r1.access_token = r2.access_token
    /\ r1.ignore_empty_access_token = r2.ignore_empty_access_token
    /\ r1.kubeconfig_content = r2.kubeconfig_content
    /\ RenderResponse(r1) = RenderResponse(r2)
    /\ r1.err = r2.err
    /\ BackendResponse(r1) = BackendResponse(r2)

\* C17: an invocation of upgrade_app_by_kubectl or rollback_app_by_kubectl
\* that got the same answers from its collaborators as an invocation of
\* install_app_by_kubectl made the same sequence of calls (render,
\* persistence, client acquisition, ensure_namespace then apply, transition)
\* and ended the same way; its success message is "app success install".
C17_AliasesOfInstall ==
    \A p \in {1, 2}, q \in {1, 2} :
        ( /\ Done(p) /\ Done(q)
          /\ inv[p].entry = "install_app_by_kubectl"
          /\ inv[q].entry \in KubectlAliases
          /\ SameResponses(inv[p], inv[q]) )
        => /\ inv[q].log = inv[p].log
           /\ inv[q].escaped = inv[p].escaped
           /\ inv[q].result = inv[p].result
           /\ inv[q].message = inv[p].message
           /\ inv[q].result => /\ inv[q].message = <<"app success ", "install">>
                               /\ "apply" \in CallsOf(inv[q])
           /\ "delete_one_by_one" \notin CallsOf(inv[q])

C17_Witness ==
    \E p \in {1, 2}, q \in {1, 2} :
        /\ Done(p) /\ Done(q)
        /\ inv[p].entry = "install_app_by_kubectl"
        /\ inv[q].entry = "rollback_app_by_kubectl"
        /\ SameResponses(inv[p], inv[q])
        /\ inv[q].content = "chart-b"
        /\ Transitions(inv[q]) = <<TransitionEv(TRUE, <<"app success ", "install">>)>>
        /\ inv[q].log = inv[p].log

---------------------------------------------------------------------------
(* C18 *)

\* the invocation called the backend while the Release held other content
\* than the content the invocation had saved and sends
StaleAtCall(r) == r.seen # None /\ r.seen # r.content

\* the invocation has saved the content c to the Release
Persisted(r, c) ==
    \E i \in 1..Len(r.log) : r.log[i] = Ev("release.save", <<"content", c>>)

\* C18: nothing keeps two concurrent invocations on one workload apart: the
\* Release can hold, at an invocation's backend call, content that is not
\* the content the invocation saved and sends, and whenever it does, the
\* content it holds is what the other invocation saved in between.
C18_OverwrittenByOther ==
    \A p \in {1, 2} :
        /\ inv[p].seen # None => Persisted(inv[p], inv[p].content)
        /\ StaleAtCall(inv[p])
              => \E q \in {1, 2} \ {p} : Persisted(inv[q], inv[p].seen)

C18_Witness ==
    \E p \in {1, 2}, q \in {1, 2} :
        /\ p # q
        /\ inv[p].entry = "install_app_by_kubectl"
        /\ inv[p].content = "chart-a"
        /\ "apply" \in CallsOf(inv[p])
        /\ StaleAtCall(inv[p])
        /\ inv[p].seen = "chart-b"
        /\ Persisted(inv[q], "chart-b")
        /\ ~Done(q)

---------------------------------------------------------------------------
(* C19 *)

\* C19: at no point of any runner invocation has the invocation called
\* set_transitioning more than once.
C19_AtMostOneTransition ==
    \A p \in {1, 2} : Count(inv[p], "set_transitioning") <= 1

C19_Witness ==
    \E p \in {1, 2} :
        /\ Done(p) /\ inv[p].backend = "helm"
        /\ inv[p].thrown.type = "RuntimeError"
        /\ Count(inv[p], "set_transitioning") = 1
        /\ Len(inv[p].log) >= 6

---------------------------------------------------------------------------
(* C20 *)

\* the helm install or upgrade call of the invocation returned without an
\* error, and the output it returned has no "REVISION:" in it
ReturnedWithoutRevision(r) ==
    /\ r.backend = "helm" /\ r.operation \in {"install", "upgrade"}
    /\ r.operation \in CallsOf(r)
    /\ r.failed = ""
    /\ MarkerAt(r.out) = {}

\* C20: a helm install or upgrade whose backend call returned without error
\* an output with no "REVISION:" line leaves Release.revision as it was and
\* ends with exactly one failed transition whose message is "parse helm cmd
\* output error", the backend call having been made.
C20_UnparsableOutputFails ==
    /\ [][ \A p \in {1, 2} :
             (inv[p].pc = "helm_core" /\ ReturnedWithoutRevision(inv'[p]))
                => /\ release'.revision = release.revision
                   /\ inv'[p].log = Append(inv[p].log,
                                           Ev(inv[p].operation, <<inv[p].content>>))
                   /\ inv'[p].thrown = HelmParseError ]_vars
    /\ [](\A p \in {1, 2} :
             (Done(p) /\ ReturnedWithoutRevision(inv[p]))
                => /\ WroteOnly(inv[p], FALSE, <<"parse helm cmd output error">>)
                   /\ inv[p].escaped = NoExc)

C20_Witness ==
    \E p \in {1, 2} :
        /\ Done(p) /\ ReturnedWithoutRevision(inv[p])
        /\ inv[p].entry = "upgrade_app_by_helm"
        /\ inv[p].out = <<"NAME:", " ", "redis">>
        /\ release.revision = <<1>>
        /\ ~transitioning.result

============================================================================
